---- MODULE Spec2Model ----
(***************************************************************************)
(* Batch scheduling core of the Amazon price tracker (src/index.js).       *)
(*                                                                         *)
(* The Node.js event loop runs one continuation at a time, so every action *)
(* below is the code executed between two awaits of one processBatch       *)
(* invocation.  The worker loop of startWorker is process Worker; the      *)
(* processes of Callers are further invocations of processBatch.           *)
(***************************************************************************)
EXTENDS Integers, Sequences, FiniteSets, TLC

\* ---------------------------------------------------------------- bounds
MaxItems == 2          \* longest item list in books.txt, largest CONFIG.batchSize
MaxPrice == 2          \* extracted prices are 1..MaxPrice
MaxCallers == 1        \* processBatch callers besides the worker loop
MaxRequests == 2       \* no new batch is started once this many requests were made
MaxKills == 1          \* times the process is killed and started again
MaxCents == 32         \* prices of a notification called on its own: 0.01 .. 0.32
RandSteps == 20        \* values of Math.random(): 0/RandSteps .. (RandSteps - 1)/RandSteps
MaxChars == 5          \* characters of a books.txt read on its own
MaxIntervals == 2      \* times the setInterval timer of startMonitoring fires

\* ------------------------------------------------------- program constants
MaxRetries == 3         \* CONFIG.maxRetries
BackoffBase == 5000     \* the factor of Math.pow(2, retryCount) in parseAmazonPage, in ms
NumUserAgents == 6      \* this.userAgents.length
DAY_MS == 86400000      \* 24 * 60 * 60 * 1000
MinDelay == 60000       \* the floor of getDelay: Math.max(delay, 60_000)
RequestDelay == 8000    \* CONFIG.requestDelaySeconds * 1000
RandomDelayRange == 5000    \* CONFIG.randomDelayRange * 1000
CheckInterval == 86400000   \* CONFIG.checkInterval of test-parser.js
NoTimer == -1           \* setInterval not called yet, or the timer no longer followed

Urls == {"u1", "u2"}
Prices == 1..MaxPrice
Worker == 0
Callers == 1..MaxCallers
Procs == {Worker} \cup Callers

NoFile == [missing |-> TRUE]   \* a file that does not exist (loadJSON uses its fallback)
Absent == [absent |-> TRUE]    \* no entry for the identifier in a price mapping
Null == [null |-> TRUE]        \* no bookData held
Garbled == [garbled |-> TRUE]  \* a file left empty or cut short: JSON.parse throws on it

Lists(n) == UNION {[1..k -> Urls] : k \in 0..n}   \* the item lists of at most n lines
BookLists == Lists(MaxItems)
LongLists == Lists(MaxItems + 1)   \* one more line: three ranges at batchSize 1
EmptyStore == [u \in Urls |-> Absent]

VARIABLES
    books,              \* identifiers held by books.txt, in file order
    batchSize,          \* CONFIG.batchSize
    pricesFile,         \* content of prices.json
    progressFile,       \* content of progress.json: NoFile or [index |-> n]
    prices,             \* this.prices
    isRunning,          \* this.isRunning
    stats,              \* this.stats
    pc,                 \* position of each invocation
    urls,               \* processBatch: const urls
    startIndex,         \* processBatch: const startIndex
    endIndex,           \* processBatch: const endIndex
    i,                  \* processBatch: loop variable i
    processedInBatch,   \* processBatch: let processedInBatch
    retryCount,         \* parseAmazonPage: retryCount of the pending attempt
    bookData,           \* processBatch: const bookData while notifying
    lastLog,            \* the last line a processBatch invocation logged on returning
    notifications,      \* sendMessage invocations received by the bot, per url
    seen,               \* history: the price the site last showed per url, 0 before any
    attempts,           \* history: requests issued for the item being fetched
    visits,             \* history: items attempted per index in this cycle
    cycleCalls,         \* history: batches that persisted both files in this cycle
    telegramError,      \* sendPriceDropNotification caught an error in the batch in flight
    argv,               \* process.argv past the script name
    kills,              \* history: times the process was killed
    killedAt,           \* history: where the worker was when the process was last killed
    waited,             \* history: backoff slept for the item being fetched, in ms
    outcome,            \* history: what the latest attempt of this batch came to
    arg,                \* the arguments of a function called on its own
    result,             \* what that call returned
    booksCount,         \* test-parser.js: var booksCount
    checkedCount,       \* checkPrices: let checkedCount, per run
    timer,              \* ms until the setInterval timer fires next, NoTimer when not set
    wake,               \* ms until the setTimeout a run sleeps on resolves
    fired               \* history: times the setInterval callback was called

vars == <<books, batchSize, pricesFile, progressFile, prices, isRunning, stats,
          pc, urls, startIndex, endIndex, i, processedInBatch, retryCount,
          bookData, lastLog, notifications, seen, attempts, visits, cycleCalls,
          telegramError, argv, kills, killedAt, waited, outcome, arg, result,
          booksCount, checkedCount, timer, wake, fired>>

config == <<books, batchSize>>
files == <<pricesFile, progressFile>>
locals == <<urls, startIndex, endIndex, i, processedInBatch, retryCount, bookData>>
LogLines == {"none", "skipped", "empty", "saved", "error"}
history == <<attempts, visits, cycleCalls, waited, outcome>>
call == <<arg, result>>
life == <<argv, kills, killedAt>>
monitor == <<booksCount, checkedCount, timer, wake, fired>>

Min(a, b) == IF a < b THEN a ELSE b

Lowest(S) == CHOOSE k \in S : \A j \in S : k <= j

Highest(S) == CHOOSE k \in S : \A j \in S : k >= j

NoVisits == [k \in 0..MaxItems |-> 0]

\* ----------------------------------------------------------- pure helpers
\* faulty variant of LoadJSON: only a missing file gives the fallback
LoadJSONMissingOnly(file, fallback) == IF file = NoFile THEN fallback ELSE file

\* loadJSON: the parsed content of the file, or the fallback when it cannot be read
\* or parsed
LoadJSON(file, fallback) == IF file \in {NoFile, Garbled} THEN fallback ELSE file

\* saveJSON is one fs.writeFile on the file itself, which truncates it and then writes:
\* what the file holds when the process dies before, during or after the write
WriteFile(old, new, cut) ==
    CASE cut = "before" -> old
      [] cut = "during" -> Garbled
      [] cut = "after" -> new

\* readBookUrls: the list read, or [] when reading books.txt fails
ReadBookUrls(ok) == IF ok THEN books ELSE <<>>

\* faulty variant of EndIndex: a slice holds at least the item at the cursor
EndIndexAtLeastOne(start, b, len) == IF start >= len THEN start + 1 ELSE Min(start + b, len)

\* const endIndex = Math.min(startIndex + CONFIG.batchSize, urls.length)
EndIndex(start, b, len) == Min(start + b, len)

\* faulty variants of NextIndex: the wrap test with > for >=, and no wrap at all
NextIndexStrict(end, len) == IF end > len THEN 0 ELSE end

NextIndexNoWrap(end, len) == end

\* the index saved to progress.json after the batch
NextIndex(end, len) == IF end >= len THEN 0 ELSE end

\* the object returned by parseAmazonPage on success
Observation(url, price) == [url |-> url, price |-> price]

\* faulty variants of IsDrop: the comparison reversed, <= for <, and a missing entry
\* compared as if it held an unbounded price
IsDropReversed(store, url, newPrice) ==
    /\ store[url] # Absent
    /\ newPrice > store[url].price

IsDropOrEqual(store, url, newPrice) ==
    /\ store[url] # Absent
    /\ newPrice <= store[url].price

IsDropOrNew(store, url, newPrice) ==
    \/ store[url] = Absent
    \/ newPrice < store[url].price

\* if (this.prices[url]) ... if (newPrice < oldPrice)
IsDrop(store, url, newPrice) ==
    /\ store[url] # Absent
    /\ newPrice < store[url].price

\* where control goes when processBatch returns
Return(p) == IF p = Worker THEN "pause" ELSE "done"

\* how the promise of an invocation has settled for the caller awaiting it: the
\* guard returns, the empty-list branch returns, and the catch block of
\* processBatch logs without rethrowing, so no path rejects it
Settled(p) == IF pc[p] = Return(p) THEN "fulfilled" ELSE "pending"

\* faulty variant of IsEmptyList: the test for an empty list left out
NeverEmpty(list) == FALSE

\* if (urls.length === 0)
IsEmptyList(list) == Len(list) = 0

\* faulty variant of ShouldRetry: <= for <
ShouldRetryInclusive(retry) == retry <= MaxRetries

\* faulty variant of WaitTime: the wait grows by the base with every retry
WaitTimeLinear(retry) == (retry + 1) * BackoffBase

\* const waitTime = Math.pow(2, retryCount) * 5000
WaitTime(retry) == 2 ^ retry * BackoffBase

\* Math.random() returns k / RandSteps for a k of Rands
Rands == 0..(RandSteps - 1)

\* the characters of books.txt: white space, the comment sign, any other character
\* and the line feed
Chars == {" ", "#", "a", "\n"}

\* the contents of books.txt of at most MaxChars characters
Contents == UNION {[1..k -> Chars] : k \in 0..MaxChars}

\* the random numbers of an attempt and of the retry that follows it
Draws == [attempt : Rands, retry : Rands]

\* item counts: short lists, and lists so long that the floor applies
Counts == {1, 2, 3, 4, 5, 6, 1440, 2160, 8640}

\* the calls of the two delay functions over the random source
DelayCalls ==
    [fn : {"getDelay"}, booksCount : Counts, random : Rands]
       \cup [fn : {"randomDelay"}, booksCount : {0}, random : Rands]

\* prices in hundredths: the small ones and the two of the documented example
Amounts == (1..MaxCents) \cup {7500, 10000}

\* an old price and a lower new one
Quotes == {q \in [old : Amounts, new : Amounts] : q.new < q.old}

\* const priceDrop = oldPrice - book.price, shown with toFixed(2): in hundredths;
\* the error of the double is far below half a hundredth
PriceDrop(old, new) == old - new

\* the pairs of Amounts whose quotient is exactly half-way between two
\* two-decimal numbers while the double computed for it is below the middle:
\* (0.32 - 0.27) / 0.32 * 100 is 15.624999999999996 in binary floating point
\* (the other half-way quotients of Amounts come out at or above the middle)
BelowHalf == {[old |-> 32, new |-> 27]}

\* faulty variant of PercentDrop: the digits after the second decimal are cut off
PercentDropTruncated(old, new) == (10000 * (old - new)) \div old

\* ((priceDrop / oldPrice) * 100).toFixed(2), in hundredths of a percent: toFixed
\* gives the two-decimal number nearest to the double, the larger one of two
\* equally near
PercentDrop(old, new) ==
    LET q == (10000 * (old - new)) \div old
        r == (10000 * (old - new)) % old
    IN IF 2 * r < old THEN q
       ELSE IF 2 * r > old THEN q + 1
       ELSE IF [old |-> old, new |-> new] \in BelowHalf THEN q
       ELSE q + 1

Max(a, b) == IF a > b THEN a ELSE b

\* x * num / den rounded down, computed without leaving 32 bits
Scale(x, num, den) == (x \div den) * num + ((x % den) * num) \div den

\* this.userAgents[Math.floor(Math.random() * this.userAgents.length)], as the
\* position in the list
GetRandomUserAgent(k) == ((k * NumUserAgents) \div RandSteps) + 1

\* faulty variant of GetDelay: the floor left out
GetDelayNoFloor(count, k) ==
    Scale(DAY_MS \div count, 6 * RandSteps + 8 * k, 10 * RandSteps)

\* getDelay(count) of test-parser.js in ms, rounded down: avgDelay =
\* DAY_MS / count, variation = avgDelay * 0.4, delay = avgDelay +
\* (Math.random() * variation * 2 - variation), which is avgDelay *
\* (0.6 + 0.8 * k / RandSteps), and Math.max(delay, 60_000)
GetDelay(count, k) ==
    Max(Scale(DAY_MS \div count, 6 * RandSteps + 8 * k, 10 * RandSteps), MinDelay)

\* randomDelay() of index.js in ms, rounded down: base + Math.random() * range
RandomDelay(k) == RequestDelay + (k * RandomDelayRange) \div RandSteps

\* content.split("\n"): the pieces between the line feeds, "" included
RECURSIVE Split(_)
Split(text) ==
    IF \E k \in 1..Len(text) : text[k] = "\n"
    THEN LET k == CHOOSE k \in 1..Len(text) :
                     text[k] = "\n" /\ \A j \in 1..(k - 1) : text[j] # "\n"
         IN <<SubSeq(text, 1, k - 1)>> \o Split(SubSeq(text, k + 1, Len(text)))
    ELSE <<text>>

\* the white space at the start of a line removed
RECURSIVE TrimStart(_)
TrimStart(line) ==
    IF line # <<>> /\ line[1] = " " THEN TrimStart(Tail(line)) ELSE line

\* the white space at the end of a line removed
RECURSIVE TrimEnd(_)
TrimEnd(line) ==
    IF line # <<>> /\ line[Len(line)] = " "
    THEN TrimEnd(SubSeq(line, 1, Len(line) - 1))
    ELSE line

\* faulty variant of Trim: only the start of the line is trimmed
TrimStartOnly(line) == TrimStart(line)

\* line.trim()
Trim(line) == TrimEnd(TrimStart(line))

\* line && !line.startsWith("#")
IsUrlLine(line) == line # <<>> /\ line[1] # "#"

\* content.split("\n").map(line => line.trim()).filter(line => line &&
\* !line.startsWith("#"))
ParseBooks(content) ==
    LET lines == Split(content)
        trimmed == [k \in 1..Len(lines) |-> Trim(lines[k])]
    IN SelectSeq(trimmed, IsUrlLine)

\* if (retryCount < CONFIG.maxRetries)
ShouldRetry(retry) == retry < MaxRetries

\* ------------------------------------------------------------------ Init
\* the state in which the worker is at `at`, books.txt holds one of `lists`,
\* prices.json holds `stored` and the process was given the arguments `args`
Setup(args, lists, stored, at, inputs) ==
    /\ books \in lists
    /\ batchSize \in 1..MaxItems
    /\ pricesFile = stored
    /\ progressFile = NoFile
    /\ prices = EmptyStore
    /\ isRunning = FALSE
    /\ stats = [totalRequests |-> 0, successfulRequests |-> 0,
                failedRequests |-> 0, priceDropsFound |-> 0]
    /\ pc = [p \in Procs |-> IF p = Worker THEN at ELSE "idle"]
    /\ urls = [p \in Procs |-> <<>>]
    /\ startIndex = [p \in Procs |-> 0]
    /\ endIndex = [p \in Procs |-> 0]
    /\ i = [p \in Procs |-> 0]
    /\ processedInBatch = [p \in Procs |-> 0]
    /\ retryCount = [p \in Procs |-> 0]
    /\ bookData = [p \in Procs |-> Null]
    /\ lastLog = "none"
    /\ notifications = [u \in Urls |-> 0]
    /\ seen = [u \in Urls |-> 0]
    /\ attempts = 0
    /\ outcome = "none"
    /\ visits = NoVisits
    /\ cycleCalls = 0
    /\ telegramError = FALSE
    /\ argv = args
    /\ kills = 0
    /\ killedAt = "never"
    /\ waited = 0
    /\ arg \in inputs
    /\ result = Null
    /\ booksCount = 0
    /\ checkedCount = [p \in Procs |-> 0]
    /\ timer = NoTimer
    /\ wake = [p \in Procs |-> 0]
    /\ fired = 0

\* init has loaded an empty store and startWorker is about to call processBatch
Init == Setup(<<>>, BookLists, EmptyStore, "idle", {Null})

\* the process has not been started yet and there is no prices.json
InitDown == Setup(<<>>, LongLists, NoFile, "down", {Null})

\* node index.js --once, not started yet and without a prices.json
InitOnce == Setup(<<"--once">>, BookLists, NoFile, "down", {Null})

\* --------------------------------------------------------------- actions
\* parseAmazonPage(url) called from the loop: counts the request and awaits axios.get
CallParse(p, idx, st, vs) ==
    /\ pc' = [pc EXCEPT ![p] = "fetch"]
    /\ retryCount' = [retryCount EXCEPT ![p] = 0]
    /\ stats' = [st EXCEPT !.totalRequests = @ + 1]
    /\ attempts' = 1
    /\ waited' = 0
    /\ visits' = [vs EXCEPT ![idx] = @ + 1]

\* faulty variant of LoopHead: the loop runs to the end of the list
LoopHeadWholeList(p, idx, end, processed, st, vs) ==
    /\ i' = [i EXCEPT ![p] = idx]
    /\ processedInBatch' = [processedInBatch EXCEPT ![p] = processed]
    /\ IF idx < Len(urls[p]) /\ processed = 0
       THEN CallParse(p, idx, st, vs)
       ELSE /\ pc' = [pc EXCEPT ![p] = IF idx < Len(urls[p]) THEN "pace" ELSE "savePrices"]
            /\ stats' = st
            /\ visits' = vs
            /\ retryCount' = [retryCount EXCEPT ![p] = 0]
            /\ attempts' = 0
            /\ waited' = 0

\* the loop test of processBatch with the pacing sleep before a non-first item;
\* past the last index the batch goes on to save the prices
LoopHead(p, idx, end, processed, st, vs) ==
    /\ i' = [i EXCEPT ![p] = idx]
    /\ processedInBatch' = [processedInBatch EXCEPT ![p] = processed]
    /\ IF idx < end /\ processed = 0
       THEN CallParse(p, idx, st, vs)
       ELSE /\ pc' = [pc EXCEPT ![p] = IF idx < end THEN "pace" ELSE "savePrices"]
            /\ stats' = st
            /\ visits' = vs
            /\ retryCount' = [retryCount EXCEPT ![p] = 0]
            /\ attempts' = 0
            /\ waited' = 0

\* faulty variant of CallSkip: the guard placed inside the try block, so that the finally
\* block clears the flag of the batch in flight
CallSkipClears(p) ==
    /\ pc[p] = "idle"
    /\ stats.totalRequests < MaxRequests
    /\ isRunning
    /\ pc' = [pc EXCEPT ![p] = Return(p)]
    /\ lastLog' = "skipped"
    /\ isRunning' = FALSE
    /\ UNCHANGED <<config, life, monitor, call, telegramError, files, prices, stats, locals, notifications, seen, history>>

\* processBatch entered while a batch is in flight: log and return
CallSkip(p) ==
    /\ pc[p] = "idle"
    /\ stats.totalRequests < MaxRequests
    /\ isRunning
    /\ pc' = [pc EXCEPT ![p] = Return(p)]
    /\ lastLog' = "skipped"
    /\ UNCHANGED <<config, life, monitor, call, telegramError, files, prices, isRunning, stats, locals,
                   notifications, seen, history>>

\* faulty variant of CallStart: no test of the flag
CallStartNoGuard(p) ==
    /\ pc[p] = "idle"
    /\ stats.totalRequests < MaxRequests
    /\ isRunning' = TRUE
    /\ pc' = [pc EXCEPT ![p] = "readBooks"]
    /\ UNCHANGED <<config, life, monitor, call, telegramError, files, prices, stats, locals, lastLog, notifications, seen,
                   attempts, waited, outcome, visits, cycleCalls>>

\* processBatch entered with no batch in flight: set the flag, start reading books.txt
CallStart(p) ==
    /\ pc[p] = "idle"
    /\ stats.totalRequests < MaxRequests
    /\ ~isRunning
    /\ isRunning' = TRUE
    /\ pc' = [pc EXCEPT ![p] = "readBooks"]
    /\ UNCHANGED <<config, life, monitor, call, telegramError, files, prices, stats, locals, lastLog, notifications, seen,
                   attempts, waited, outcome, visits, cycleCalls>>

\* faulty variant of Finally: the flag is left as it is
FinallyKeepsFlag(p, logged) ==
    /\ isRunning' = isRunning
    /\ pc' = [pc EXCEPT ![p] = Return(p)]
    /\ lastLog' = logged
    /\ telegramError' = FALSE
    /\ urls' = [urls EXCEPT ![p] = <<>>]
    /\ startIndex' = [startIndex EXCEPT ![p] = 0]
    /\ endIndex' = [endIndex EXCEPT ![p] = 0]
    /\ i' = [i EXCEPT ![p] = 0]
    /\ processedInBatch' = [processedInBatch EXCEPT ![p] = 0]

\* the catch and finally blocks of processBatch; the locals of the invocation end with it
Finally(p, logged) ==
    /\ isRunning' = FALSE
    /\ pc' = [pc EXCEPT ![p] = Return(p)]
    /\ lastLog' = logged
    /\ telegramError' = FALSE
    /\ urls' = [urls EXCEPT ![p] = <<>>]
    /\ startIndex' = [startIndex EXCEPT ![p] = 0]
    /\ endIndex' = [endIndex EXCEPT ![p] = 0]
    /\ i' = [i EXCEPT ![p] = 0]
    /\ processedInBatch' = [processedInBatch EXCEPT ![p] = 0]

\* readBookUrls resolved
ReadBooks(p) ==
    /\ pc[p] = "readBooks"
    /\ \E ok \in BOOLEAN :
         LET list == ReadBookUrls(ok) IN
         \/ /\ IsEmptyList(list)
            /\ Finally(p, "empty")
         \/ /\ ~IsEmptyList(list)
            /\ urls' = [urls EXCEPT ![p] = list]
            /\ pc' = [pc EXCEPT ![p] = "loadProgress"]
            /\ UNCHANGED <<isRunning, lastLog, telegramError, startIndex, endIndex, i,
                           processedInBatch>>
    /\ UNCHANGED <<config, life, monitor, call, files, prices, stats, retryCount, bookData,
                   notifications, seen, attempts, waited, outcome, visits, cycleCalls>>

\* loadJSON(progressFile) resolved: compute the slice and enter the loop
LoadProgress(p) ==
    /\ pc[p] = "loadProgress"
    /\ LET progress == LoadJSON(progressFile, [index |-> 0])
           start == progress.index
           end == EndIndex(start, batchSize, Len(urls[p]))
       IN /\ startIndex' = [startIndex EXCEPT ![p] = start]
          /\ endIndex' = [endIndex EXCEPT ![p] = end]
          /\ cycleCalls' = IF start = 0 THEN 0 ELSE cycleCalls
          /\ outcome' = "none"
          /\ LoopHead(p, start, end, 0, stats, IF start = 0 THEN NoVisits ELSE visits)
    /\ UNCHANGED <<config, life, monitor, call, telegramError, files, prices, isRunning, urls, bookData, lastLog,
                   notifications, seen>>

\* the pacing sleep resolved
Pace(p) ==
    /\ pc[p] = "pace"
    /\ CallParse(p, i[p], stats, visits)
    /\ UNCHANGED <<config, life, monitor, call, telegramError, files, prices, isRunning, urls, startIndex, endIndex,
                   i, processedInBatch, bookData, lastLog, notifications, seen,
                   cycleCalls, outcome>>

\* faulty variant of FetchError: the error of the last attempt is thrown to processBatch
FetchErrorThrows(p) ==
    /\ pc[p] = "fetch"
    /\ outcome' = "error"
    /\ IF ShouldRetry(retryCount[p])
       THEN /\ pc' = [pc EXCEPT ![p] = "backoff"]
            /\ UNCHANGED <<stats, i, processedInBatch, retryCount, attempts, waited, visits,
                           telegramError, isRunning, urls, startIndex, endIndex, lastLog>>
       ELSE /\ Finally(p, "error")
            /\ stats' = [stats EXCEPT !.failedRequests = @ + 1]
            /\ retryCount' = [retryCount EXCEPT ![p] = 0]
            /\ attempts' = 0
            /\ waited' = 0
            /\ UNCHANGED visits
    /\ UNCHANGED <<config, life, monitor, call, files, prices, bookData, notifications, seen, cycleCalls>>

\* axios.get threw (or anything in the try block did): retry with backoff, or give up
FetchError(p) ==
    /\ pc[p] = "fetch"
    /\ outcome' = "error"
    /\ IF ShouldRetry(retryCount[p])
       THEN /\ pc' = [pc EXCEPT ![p] = "backoff"]
            /\ UNCHANGED <<stats, i, processedInBatch, retryCount, attempts, waited, visits>>
       ELSE LoopHead(p, i[p] + 1, endIndex[p], processedInBatch[p],
                     [stats EXCEPT !.failedRequests = @ + 1], visits)
    /\ UNCHANGED <<config, life, monitor, call, telegramError, files, prices, isRunning, urls, startIndex, endIndex,
                   bookData, lastLog, notifications, seen, cycleCalls>>

\* faulty variant of FetchNoPrice: the batch gives up at the first item without a price
FetchNoPriceAborts(p) ==
    /\ pc[p] = "fetch"
    /\ Finally(p, "error")
    /\ retryCount' = [retryCount EXCEPT ![p] = 0]
    /\ attempts' = 0
    /\ waited' = 0
    /\ outcome' = "unavailable"
    /\ UNCHANGED <<config, life, monitor, call, files, prices, stats, bookData, notifications, seen, visits,
                   cycleCalls>>

\* faulty variant of FetchNoPrice: a page without a price is retried like an error
FetchNoPriceRetries(p) ==
    /\ pc[p] = "fetch"
    /\ outcome' = "unavailable"
    /\ IF ShouldRetry(retryCount[p])
       THEN /\ pc' = [pc EXCEPT ![p] = "backoff"]
            /\ UNCHANGED <<stats, i, processedInBatch, retryCount, attempts, waited, visits>>
       ELSE LoopHead(p, i[p] + 1, endIndex[p], processedInBatch[p], stats, visits)
    /\ UNCHANGED <<config, life, monitor, call, telegramError, files, prices, isRunning, urls, startIndex, endIndex,
                   bookData, lastLog, notifications, seen, cycleCalls>>

\* the page has no price text, or the text parses to NaN or to a price <= 0: return null
FetchNoPrice(p) ==
    /\ pc[p] = "fetch"
    /\ \E o \in {"noprice", "invalid"} :
         /\ outcome' = "unavailable"
         /\ LoopHead(p, i[p] + 1, endIndex[p], processedInBatch[p], stats, visits)
    /\ UNCHANGED <<config, life, monitor, call, telegramError, files, prices, isRunning, urls, startIndex, endIndex,
                   bookData, lastLog, notifications, seen, cycleCalls>>

\* a price was extracted: compare with the stored one, notify on a drop, store it
FetchPrice(p) ==
    /\ pc[p] = "fetch"
    /\ outcome' = "price"
    /\ \E price \in Prices :
         /\ seen' = [seen EXCEPT ![urls[p][i[p] + 1]] = price]
         /\ LET url == urls[p][i[p] + 1]
                obs == Observation(url, price)
                st == [stats EXCEPT !.successfulRequests = @ + 1]
            IN IF IsDrop(prices, url, price)
               THEN /\ stats' = [st EXCEPT !.priceDropsFound = @ + 1]
                    /\ notifications' = [notifications EXCEPT ![url] = @ + 1]
                    /\ bookData' = [bookData EXCEPT ![p] = obs]
                    /\ processedInBatch' = [processedInBatch EXCEPT ![p] = @ + 1]
                    /\ pc' = [pc EXCEPT ![p] = "notify"]
                    /\ retryCount' = [retryCount EXCEPT ![p] = 0]
                    /\ attempts' = 0
                    /\ waited' = 0
                    /\ UNCHANGED <<prices, i, visits>>
               ELSE /\ prices' = [prices EXCEPT ![url] = obs]
                    /\ LoopHead(p, i[p] + 1, endIndex[p], processedInBatch[p] + 1,
                                st, visits)
                    /\ UNCHANGED <<bookData, notifications>>
    /\ UNCHANGED <<config, life, monitor, call, telegramError, files, isRunning, urls, startIndex, endIndex, lastLog,
                   cycleCalls>>

\* faulty variant of Backoff: the retry is made for the item after the one that failed
BackoffNextItem(p) ==
    /\ pc[p] = "backoff"
    /\ pc' = [pc EXCEPT ![p] = "fetch"]
    /\ retryCount' = [retryCount EXCEPT ![p] = 0]
    /\ stats' = [stats EXCEPT !.totalRequests = @ + 1]
    /\ attempts' = 1
    /\ waited' = 0
    /\ outcome' = outcome
    /\ i' = [i EXCEPT ![p] = Min(@ + 1, endIndex[p] - 1)]
    /\ UNCHANGED <<config, life, monitor, call, telegramError, files, prices, isRunning, urls, startIndex, endIndex,
                   processedInBatch, bookData, lastLog, notifications, seen, visits,
                   cycleCalls>>

\* the backoff sleep resolved: parseAmazonPage(url, retryCount + 1)
Backoff(p) ==
    /\ pc[p] = "backoff"
    /\ pc' = [pc EXCEPT ![p] = "fetch"]
    /\ retryCount' = [retryCount EXCEPT ![p] = @ + 1]
    /\ stats' = [stats EXCEPT !.totalRequests = @ + 1]
    /\ attempts' = attempts + 1
    /\ waited' = waited + WaitTime(retryCount[p])
    /\ outcome' = outcome
    /\ UNCHANGED <<config, life, monitor, call, telegramError, files, prices, isRunning, urls, startIndex, endIndex,
                   i, processedInBatch, bookData, lastLog, notifications, seen, visits,
                   cycleCalls>>

\* faulty variant of Notify: the rejection of bot.sendMessage ends the batch
NotifyAborts(p) ==
    /\ pc[p] = "notify"
    /\ telegramError' = TRUE
    /\ isRunning' = FALSE
    /\ pc' = [pc EXCEPT ![p] = Return(p)]
    /\ lastLog' = "error"
    /\ bookData' = [bookData EXCEPT ![p] = Null]
    /\ UNCHANGED <<config, life, monitor, call, files, prices, stats, urls, startIndex, endIndex,
                   i, processedInBatch, retryCount, notifications, seen, attempts, waited, outcome,
                   visits, cycleCalls>>

\* bot.sendMessage resolved or rejected (the rejection is caught and logged):
\* faulty variant of Notify: after a notification the stored entry stays the old one
NotifyKeepsOld(p) ==
    /\ pc[p] = "notify"
    /\ \E rejected \in BOOLEAN : telegramError' = (telegramError \/ rejected)
    /\ prices' = prices
    /\ bookData' = [bookData EXCEPT ![p] = Null]
    /\ LoopHead(p, i[p] + 1, endIndex[p], processedInBatch[p], stats, visits)
    /\ UNCHANGED <<config, life, monitor, call, files, isRunning, urls, startIndex, endIndex, lastLog,
                   notifications, seen, cycleCalls, outcome>>

\* the stored price is updated and the loop goes on
Notify(p) ==
    /\ pc[p] = "notify"
    /\ \E rejected \in BOOLEAN : telegramError' = (telegramError \/ rejected)
    /\ prices' = [prices EXCEPT ![bookData[p].url] = bookData[p]]
    /\ bookData' = [bookData EXCEPT ![p] = Null]
    /\ LoopHead(p, i[p] + 1, endIndex[p], processedInBatch[p], stats, visits)
    /\ UNCHANGED <<config, life, monitor, call, files, isRunning, urls, startIndex, endIndex, lastLog,
                   notifications, seen, cycleCalls, outcome>>

\* saveJSON(pricesFile) resolved: go on to save the progress
SavePricesOk(p) ==
    /\ pc[p] = "savePrices"
    /\ pricesFile' = prices
    /\ pc' = [pc EXCEPT ![p] = "saveProgress"]
    /\ UNCHANGED <<config, life, monitor, call, telegramError, progressFile, prices, isRunning, stats, locals,
                   lastLog, notifications, seen, history>>

\* faulty variant of SavePricesFail: the rejection is swallowed and the progress is saved
SavePricesFailGoesOn(p) ==
    /\ pc[p] = "savePrices"
    /\ pc' = [pc EXCEPT ![p] = "saveProgress"]
    /\ UNCHANGED <<config, life, monitor, call, telegramError, files, prices, isRunning, stats, locals,
                   lastLog, notifications, seen, history>>

\* saveJSON(pricesFile) rejected: the error is caught and logged
SavePricesFail(p) ==
    /\ pc[p] = "savePrices"
    /\ Finally(p, "error")
    /\ UNCHANGED <<config, life, monitor, call, files, prices, stats, retryCount, bookData,
                   notifications, seen, attempts, waited, outcome, visits, cycleCalls>>

\* saveJSON(progressFile) resolved: the batch is complete
SaveProgressOk(p) ==
    /\ pc[p] = "saveProgress"
    /\ progressFile' = [index |-> NextIndex(endIndex[p], Len(urls[p]))]
    /\ cycleCalls' = cycleCalls + 1
    /\ Finally(p, "saved")
    /\ UNCHANGED <<config, life, monitor, call, pricesFile, prices, stats, retryCount, bookData,
                   notifications, seen, attempts, waited, outcome, visits>>

\* saveJSON(progressFile) rejected: the error is caught and logged
SaveProgressFail(p) ==
    /\ pc[p] = "saveProgress"
    /\ Finally(p, "error")
    /\ UNCHANGED <<config, life, monitor, call, files, prices, stats, retryCount, bookData,
                   notifications, seen, attempts, waited, outcome, visits, cycleCalls>>

\* faulty variant of Pause: the loop ends after a batch that logged an error
PauseUnlessError(p) ==
    /\ p = Worker
    /\ pc[p] = "pause"
    /\ lastLog # "error"
    /\ pc' = [pc EXCEPT ![p] = "idle"]
    /\ UNCHANGED <<config, life, monitor, call, telegramError, files, prices, isRunning, stats,
                   locals, lastLog, notifications, seen, history>>

\* startWorker: the pause between two batches elapsed
Pause(p) ==
    /\ p = Worker
    /\ pc[p] = "pause"
    /\ pc' = [pc EXCEPT ![p] = "idle"]
    /\ UNCHANGED <<config, life, monitor, call, telegramError, files, prices, isRunning, stats, locals, lastLog,
                   notifications, seen, history>>

\* books.txt is edited by its owner between two batches; the positions of the
\* new list are other items, so the history of the cycle starts afresh
EditBooks ==
    /\ ~isRunning
    /\ books' \in BookLists \ {books}
    /\ visits' = NoVisits
    /\ cycleCalls' = 0
    /\ UNCHANGED <<batchSize, life, monitor, call, telegramError, files, prices, isRunning, stats, pc, locals,
                   lastLog, notifications, seen, attempts, waited, outcome>>

\* the process is killed: what it held in memory is gone, a write in flight leaves
\* its file as it was, cut short or complete; the histories start afresh
Kill ==
    /\ kills < MaxKills
    /\ pc[Worker] # "down"
    /\ \E cut \in {"before", "during", "after"} :
         /\ pricesFile' = IF pc[Worker] = "savePrices"
                           THEN WriteFile(pricesFile, prices, cut)
                           ELSE pricesFile
         /\ progressFile' =
               IF pc[Worker] = "saveProgress"
               THEN WriteFile(progressFile,
                              [index |-> NextIndex(endIndex[Worker], Len(urls[Worker]))],
                              cut)
               ELSE progressFile
    /\ kills' = kills + 1
    /\ killedAt' = pc[Worker]
    /\ pc' = [pc EXCEPT ![Worker] = "down"]
    /\ prices' = EmptyStore
    /\ isRunning' = FALSE
    /\ stats' = [totalRequests |-> 0, successfulRequests |-> 0,
                 failedRequests |-> 0, priceDropsFound |-> 0]
    /\ urls' = [p \in Procs |-> <<>>]
    /\ startIndex' = [p \in Procs |-> 0]
    /\ endIndex' = [p \in Procs |-> 0]
    /\ i' = [p \in Procs |-> 0]
    /\ processedInBatch' = [p \in Procs |-> 0]
    /\ retryCount' = [p \in Procs |-> 0]
    /\ bookData' = [p \in Procs |-> Null]
    /\ lastLog' = "none"
    /\ telegramError' = FALSE
    /\ attempts' = 0
    /\ waited' = 0
    /\ outcome' = "none"
    /\ visits' = NoVisits
    /\ cycleCalls' = 0
    /\ UNCHANGED <<config, monitor, call, argv, notifications, seen>>

\* faulty variant of Start: init does not load prices.json
StartNoLoad ==
    /\ pc[Worker] = "down"
    /\ pc' = [pc EXCEPT ![Worker] = "idle"]
    /\ UNCHANGED <<config, life, monitor, call, telegramError, files, prices, isRunning, stats,
                   locals, lastLog, notifications, seen, history>>

\* the main function: init loads prices.json and counts the items, then startWorker
\* is called
Start ==
    /\ pc[Worker] = "down"
    /\ prices' = LoadJSON(pricesFile, EmptyStore)
    /\ pc' = [pc EXCEPT ![Worker] = "idle"]
    /\ UNCHANGED <<config, life, monitor, call, telegramError, files, isRunning, stats, locals,
                   lastLog, notifications, seen, history>>

\* sendPriceDropNotification(book, oldPrice) called on its own: the amounts it
\* puts into the message
SendPriceDropNotification ==
    /\ arg \in Quotes
    /\ result = Null
    /\ result' = [saved   |-> PriceDrop(arg.old, arg.new),
                  percent |-> PercentDrop(arg.old, arg.new)]
    /\ UNCHANGED <<config, life, monitor, arg, telegramError, files, prices, isRunning, stats,
                   pc, locals, lastLog, notifications, seen, history>>

\* a function called on its own touches nothing of the tracker
Called == UNCHANGED <<config, life, monitor, arg, telegramError, files, prices, isRunning, stats,
                      pc, locals, lastLog, notifications, seen, history>>

\* two consecutive attempts of parseAmazonPage for one item: each calls
\* getRealisticHeaders, which draws the User-Agent anew
GetRealisticHeaders ==
    /\ arg \in Draws
    /\ result = Null
    /\ result' = [attempt |-> GetRandomUserAgent(arg.attempt),
                  retry   |-> GetRandomUserAgent(arg.retry)]
    /\ Called

\* readBookUrls() called on its own with books.txt readable: what it returns
CallReadBookUrls ==
    /\ arg \in [content : Contents]
    /\ result = Null
    /\ result' = [urls |-> ParseBooks(arg.content)]
    /\ Called

\* getDelay(booksCount) called on its own
CallGetDelay ==
    /\ arg \in DelayCalls
    /\ arg.fn = "getDelay"
    /\ result = Null
    /\ result' = [delay |-> GetDelay(arg.booksCount, arg.random)]
    /\ Called

\* randomDelay() called on its own
CallRandomDelay ==
    /\ arg \in DelayCalls
    /\ arg.fn = "randomDelay"
    /\ result = Null
    /\ result' = [delay |-> RandomDelay(arg.random)]
    /\ Called

\* the steps of an invocation that finds no batch in flight
Run(p) ==
    \/ CallStart(p)
    \/ ReadBooks(p)
    \/ LoadProgress(p)
    \/ Pace(p)
    \/ FetchError(p)
    \/ FetchNoPrice(p)
    \/ FetchPrice(p)
    \/ Backoff(p)
    \/ Notify(p)
    \/ SavePricesOk(p)
    \/ SaveProgressOk(p)
    \/ Pause(p)

Batch(p) ==
    \/ CallSkip(p)
    \/ Run(p)

\* the program with books.txt left alone: batches, skipped calls and failing writes
Next ==
    \/ \E p \in Procs : Batch(p)
    \/ \E p \in Procs : SavePricesFail(p)
    \/ \E p \in Procs : SaveProgressFail(p)

Spec == Init /\ [][Next]_vars

\* a step of the worker loop or of the invocation it awaits
WorkerStep ==
    \/ Batch(Worker)
    \/ SavePricesFail(Worker)
    \/ SaveProgressFail(Worker)

\* the same program on an event loop that keeps running: the timer, request or file
\* operation the worker awaits settles (axios.get has CONFIG.requestTimeout)
SpecLive == Init /\ [][Next]_vars /\ WF_vars(WorkerStep)

\* the same with every write succeeding
NextSteady == \E p \in Procs : Batch(p)

SpecSteady == Init /\ [][NextSteady]_vars

\* the program as main starts it, startWorker being the only caller of
\* processBatch, with books.txt edited between batches
NextEdit ==
    \/ Run(Worker)
    \/ EditBooks

SpecEdit == Init /\ [][NextEdit]_vars

\* the process from before its first start, killed at any point and started again,
\* with books.txt left alone and every write that is not cut short succeeding
NextCrash ==
    \/ Run(Worker)
    \/ Kill
    \/ Start

SpecCrash == InitDown /\ [][NextCrash]_vars

\* node index.js --once: no line of index.js reads process.argv, so the process
\* takes the steps it takes without the argument, the main function and then the
\* worker loop, with the writes succeeding or failing
NextOnce ==
    \/ Start
    \/ Run(Worker)
    \/ SavePricesFail(Worker)
    \/ SaveProgressFail(Worker)

SpecOnce == InitOnce /\ [][NextOnce]_vars

\* a notification for each pair of an old and a lower new price
InitNotify == Setup(<<>>, {<<>>}, EmptyStore, "idle", Quotes)

NextNotify == SendPriceDropNotification

SpecNotify == InitNotify /\ [][NextNotify]_vars

\* two consecutive attempts for each pair of random draws
InitHeaders == Setup(<<>>, {<<>>}, EmptyStore, "idle", Draws)

NextHeaders == GetRealisticHeaders

SpecHeaders == InitHeaders /\ [][NextHeaders]_vars

\* readBookUrls for each content of books.txt
InitRead == Setup(<<>>, {<<>>}, EmptyStore, "idle", [content : Contents])

NextRead == CallReadBookUrls

SpecRead == InitRead /\ [][NextRead]_vars

\* the delay functions for each item count and each random number
InitDelay == Setup(<<>>, {<<>>}, EmptyStore, "idle", DelayCalls)

NextDelay ==
    \/ CallGetDelay
    \/ CallRandomDelay

SpecDelay == InitDelay /\ [][NextDelay]_vars

\* ------------------------------------------- test-parser.js: startMonitoring
\* the lists of books.txt for the runs over the whole list: up to MaxItems + 2
\* lines holding the two urls in turn
ManyLists ==
    {[k \in 1..n |-> IF k % 2 = 1 THEN "u1" ELSE "u2"] : n \in 0..(MaxItems + 2)}

\* Math.random() in getDelay: the least and the greatest value
DelayDraws == {0, RandSteps - 1}

\* what index.js holds and test-parser.js does not
NotInVariant ==
    UNCHANGED <<config, life, call, telegramError, progressFile, isRunning, stats,
                startIndex, endIndex, processedInBatch, lastLog, history>>

\* a checkPrices invocation that has not returned
Checking(r) == pc[r] \in {"readBooks", "pace", "fetch", "backoff", "notify", "savePrices"}

\* a run awaiting a setTimeout that is not due yet
Sleeping(r) == pc[r] \in {"pace", "backoff"} /\ wake[r] > 0

\* for (const url of urls): past the last url savePrices is called; before a url
\* the run sleeps getDelay(booksCount) if (checkedCount > 0), then parseAmazonPage
CheckLoop(r, list, idx, cnt) ==
    /\ i' = [i EXCEPT ![r] = idx]
    /\ checkedCount' = [checkedCount EXCEPT ![r] = cnt]
    /\ retryCount' = [retryCount EXCEPT ![r] = 0]
    /\ IF idx >= Len(list)
       THEN /\ pc' = [pc EXCEPT ![r] = "savePrices"]
            /\ wake' = wake
       ELSE IF cnt > 0
            THEN /\ pc' = [pc EXCEPT ![r] = "pace"]
                 /\ \E k \in DelayDraws :
                      wake' = [wake EXCEPT ![r] = GetDelay(booksCount, k)]
            ELSE /\ pc' = [pc EXCEPT ![r] = "fetch"]
                 /\ wake' = wake

\* process.exit(1) from the catch of the main function, or the unhandled rejection
\* of the setInterval callback, which ends the process
Exit ==
    /\ pc' = [p \in Procs |-> "done"]
    /\ timer' = NoTimer
    /\ wake' = [p \in Procs |-> 0]

\* the main function without --once: init loads prices.json, startMonitoring calls
\* checkPrices, which awaits readBookUrls
StartMonitoring ==
    /\ pc[Worker] = "down"
    /\ prices' = LoadJSON(pricesFile, EmptyStore)
    /\ pc' = [pc EXCEPT ![Worker] = "readBooks"]
    /\ NotInVariant
    /\ UNCHANGED <<monitor, pricesFile, urls, i, retryCount, bookData, notifications, seen>>

\* readBookUrls resolved: booksCount = urls.length, let checkedCount = 0, first url
CheckReadBooks(r) ==
    /\ pc[r] = "readBooks"
    /\ urls' = [urls EXCEPT ![r] = books]
    /\ booksCount' = Len(books)
    /\ CheckLoop(r, books, 0, 0)
    /\ NotInVariant
    /\ UNCHANGED <<pricesFile, prices, bookData, notifications, seen, timer, fired>>

\* readBookUrls rethrows the error of fs.readFile: checkPrices rejects
CheckReadBooksFails(r) ==
    /\ pc[r] = "readBooks"
    /\ Exit
    /\ NotInVariant
    /\ UNCHANGED <<pricesFile, prices, urls, i, retryCount, bookData, notifications, seen,
                   booksCount, checkedCount, fired>>

\* the setTimeout of the delay between two urls resolved: parseAmazonPage(url)
CheckDelayOver(r) ==
    /\ pc[r] = "pace"
    /\ wake[r] = 0
    /\ pc' = [pc EXCEPT ![r] = "fetch"]
    /\ NotInVariant
    /\ UNCHANGED <<monitor, pricesFile, prices, urls, i, retryCount, bookData,
                   notifications, seen>>

\* parseAmazonPage returned bookData: checkedCount++, sendTelegramNotification on a
\* lower price, else this.prices[url] = bookData and the next url
CheckFetchPrice(r) ==
    /\ pc[r] = "fetch"
    /\ \E price \in Prices :
         LET url == urls[r][i[r] + 1]
         IN /\ seen' = [seen EXCEPT ![url] = price]
            /\ IF IsDrop(prices, url, price)
               THEN /\ notifications' = [notifications EXCEPT ![url] = @ + 1]
                    /\ bookData' = [bookData EXCEPT ![r] = Observation(url, price)]
                    /\ checkedCount' = [checkedCount EXCEPT ![r] = @ + 1]
                    /\ pc' = [pc EXCEPT ![r] = "notify"]
                    /\ UNCHANGED <<prices, i, retryCount, wake>>
               ELSE /\ prices' = [prices EXCEPT ![url] = Observation(url, price)]
                    /\ CheckLoop(r, urls[r], i[r] + 1, checkedCount[r] + 1)
                    /\ UNCHANGED <<bookData, notifications>>
    /\ NotInVariant
    /\ UNCHANGED <<pricesFile, urls, booksCount, timer, fired>>

\* parseAmazonPage returned null (no price on the page, or the retries used up):
\* continue without counting the url
CheckFetchNull(r) ==
    /\ pc[r] = "fetch"
    /\ CheckLoop(r, urls[r], i[r] + 1, checkedCount[r])
    /\ NotInVariant
    /\ UNCHANGED <<pricesFile, prices, urls, bookData, notifications, seen,
                   booksCount, timer, fired>>

\* axios.get rejected and retryCount < maxRetries: sleep Math.pow(2, retryCount) * 5000
CheckFetchError(r) ==
    /\ pc[r] = "fetch"
    /\ ShouldRetry(retryCount[r])
    /\ pc' = [pc EXCEPT ![r] = "backoff"]
    /\ wake' = [wake EXCEPT ![r] = WaitTime(retryCount[r])]
    /\ NotInVariant
    /\ UNCHANGED <<pricesFile, prices, urls, i, retryCount, bookData, notifications, seen,
                   booksCount, checkedCount, timer, fired>>

\* the backoff is over: parseAmazonPage(url, retryCount + 1)
CheckRetry(r) ==
    /\ pc[r] = "backoff"
    /\ wake[r] = 0
    /\ pc' = [pc EXCEPT ![r] = "fetch"]
    /\ retryCount' = [retryCount EXCEPT ![r] = @ + 1]
    /\ NotInVariant
    /\ UNCHANGED <<monitor, pricesFile, prices, urls, i, bookData, notifications, seen>>

\* sendTelegramNotification returned (it catches its error): this.prices[url] =
\* bookData and the next url
CheckNotify(r) ==
    /\ pc[r] = "notify"
    /\ prices' = [prices EXCEPT ![bookData[r].url] = bookData[r]]
    /\ bookData' = [bookData EXCEPT ![r] = Null]
    /\ CheckLoop(r, urls[r], i[r] + 1, checkedCount[r])
    /\ NotInVariant
    /\ UNCHANGED <<pricesFile, urls, notifications, seen, booksCount, timer, fired>>

\* savePrices resolved and checkPrices returns; startMonitoring, which awaited the
\* first run, then calls setInterval(..., CONFIG.checkInterval)
CheckSavePrices(r) ==
    /\ pc[r] = "savePrices"
    /\ pricesFile' = prices
    /\ pc' = [pc EXCEPT ![r] = "idle"]
    /\ timer' = IF fired = 0 /\ timer = NoTimer THEN CheckInterval ELSE timer
    /\ NotInVariant
    /\ UNCHANGED <<prices, urls, i, retryCount, bookData, notifications, seen,
                   booksCount, checkedCount, wake, fired>>

\* fs.writeFile rejected: savePrices does not catch it and checkPrices rejects
CheckSavePricesFails(r) ==
    /\ pc[r] = "savePrices"
    /\ Exit
    /\ NotInVariant
    /\ UNCHANGED <<pricesFile, prices, urls, i, retryCount, bookData, notifications, seen,
                   booksCount, checkedCount, fired>>

\* the setInterval timer is due: the callback calls checkPrices, whatever the
\* earlier runs are doing, and the timer is set again
IntervalFires ==
    /\ timer = 0
    /\ \E r \in Procs :
         /\ pc[r] = "idle"
         /\ \A q \in Procs : pc[q] = "idle" => r <= q
         /\ pc' = [pc EXCEPT ![r] = "readBooks"]
    /\ fired' = fired + 1
    /\ timer' = IF fired + 1 < MaxIntervals THEN CheckInterval ELSE NoTimer
    /\ NotInVariant
    /\ UNCHANGED <<pricesFile, prices, urls, i, retryCount, bookData, notifications, seen,
                   booksCount, checkedCount, wake>>

\* the timers that are not due yet
Pending == {wake[r] : r \in {q \in Procs : Sleeping(q)}}
               \cup (IF timer > 0 THEN {timer} ELSE {})

\* time passes up to the next timer while every run in flight sleeps
Tick ==
    /\ timer # 0
    /\ \A r \in Procs : Checking(r) => Sleeping(r)
    /\ Pending # {}
    /\ LET d == Lowest(Pending)
       IN /\ wake' = [r \in Procs |-> IF Sleeping(r) THEN wake[r] - d ELSE wake[r]]
          /\ timer' = IF timer > 0 THEN timer - d ELSE timer
    /\ NotInVariant
    /\ UNCHANGED <<pricesFile, prices, pc, urls, i, retryCount, bookData, notifications,
                   seen, booksCount, checkedCount, fired>>

\* the process has not been started yet and there is no prices.json
InitMonitor == Setup(<<>>, ManyLists, NoFile, "down", {Null})

NextMonitor ==
    \/ StartMonitoring
    \/ \E r \in Procs :
         \/ CheckReadBooks(r)
         \/ CheckReadBooksFails(r)
         \/ CheckDelayOver(r)
         \/ CheckFetchPrice(r)
         \/ CheckFetchNull(r)
         \/ CheckFetchError(r)
         \/ CheckRetry(r)
         \/ CheckNotify(r)
         \/ CheckSavePrices(r)
         \/ CheckSavePricesFails(r)
    \/ IntervalFires
    \/ Tick

SpecMonitor == InitMonitor /\ [][NextMonitor]_vars

\* ---------------------------------------------------------------- claims
InFlight == {"readBooks", "loadProgress", "pace", "fetch", "backoff", "notify",
             "savePrices", "saveProgress"}

Ceil(n, b) == (n + b - 1) \div b

CursorIndex == LoadJSON(progressFile, [index |-> 0]).index

\* C1: with books.txt unchanged, every write succeeding and the cursor starting at
\* 0, no index is attempted twice in a cycle; the cursor is away from 0 while fewer
\* than ceil(n/b) batches of the cycle have completed, and when it is 0 again
\* exactly ceil(n/b) batches have completed and every index was attempted once.
C1_RoundRobin ==
    /\ \A k \in DOMAIN visits : visits[k] <= 1
    /\ cycleCalls <= Ceil(Len(books), batchSize)
    /\ (cycleCalls > 0 /\ CursorIndex # 0) => cycleCalls < Ceil(Len(books), batchSize)
    /\ (cycleCalls > 0 /\ CursorIndex = 0) =>
          /\ cycleCalls = Ceil(Len(books), batchSize)
          /\ \A k \in 0..(Len(books) - 1) : visits[k] = 1

\* a cycle of more than one batch has just returned the cursor to 0
C1_Witness ==
    /\ cycleCalls > 1
    /\ progressFile = [index |-> 0]
    /\ \A k \in 0..(Len(books) - 1) : visits[k] = 1

\* C2: an invocation made while a batch is in flight returns at once, logging the
\* skip: it reads no list, issues no request, leaves this.prices, prices.json and
\* progress.json as they are and leaves the flag set.
C2_SkipIsInert ==
    [][\A p \in Procs :
         (pc[p] = "idle" /\ pc'[p] # "idle" /\ isRunning) =>
            /\ pc'[p] = Return(p)
            /\ lastLog' = "skipped"
            /\ isRunning'
            /\ urls'[p] = <<>>
            /\ stats' = stats
            /\ prices' = prices
            /\ pricesFile' = pricesFile
            /\ progressFile' = progressFile
            /\ notifications' = notifications]_vars

\* an invocation was skipped and the batch it found in flight is still fetching
C2_Witness ==
    /\ lastLog = "skipped"
    /\ isRunning
    /\ \E p \in Procs : pc[p] = "fetch"
    /\ \E p \in Procs : pc[p] = Return(p)

\* C3: at most one invocation is between setting the flag and returning, so at
\* most one batch is in its item loop or its persist steps.
C3_OneBatchInFlight == Cardinality({p \in Procs : pc[p] \in InFlight}) <= 1

\* the worker's batch is saving while a caller's invocation has been turned away
C3_Witness ==
    /\ pc[Worker] = "savePrices"
    /\ lastLog = "skipped"
    /\ \E c \in Callers : pc[c] = "done"

\* the identifier of the item an invocation is fetching
ItemUrl(p) == urls[p][i[p] + 1]

\* the step in which parseAmazonPage returns an observation to the loop
Extracted(p) ==
    /\ pc[p] = "fetch"
    /\ stats'.successfulRequests = stats.successfulRequests + 1

\* the price of that observation
NewPrice(p) ==
    IF bookData'[p] # Null THEN bookData'[p].price ELSE prices'[ItemUrl(p)].price

\* C4: when an extraction succeeds with a price below the stored one, the drop
\* counter goes up by one and the notifier is invoked once for that item while the
\* stored entry is still the old one; the entry is overwritten when the notifier
\* has answered, without a second invocation.
C4_DropNotifiesOnce ==
    [][\A p \in Procs :
         /\ (Extracted(p) /\ prices[ItemUrl(p)] # Absent
                /\ NewPrice(p) < prices[ItemUrl(p)].price) =>
               /\ stats'.priceDropsFound = stats.priceDropsFound + 1
               /\ notifications' =
                     [notifications EXCEPT ![ItemUrl(p)] = notifications[ItemUrl(p)] + 1]
               /\ prices' = prices
               /\ pc'[p] = "notify"
               /\ bookData'[p] = Observation(ItemUrl(p), NewPrice(p))
         /\ (pc[p] = "notify" /\ pc'[p] # "notify") =>
               /\ prices' = [prices EXCEPT ![ItemUrl(p)] = bookData[p]]
               /\ notifications' = notifications
               /\ stats'.priceDropsFound = stats.priceDropsFound]_vars

\* the notifier was invoked for a price below the stored one, not yet overwritten
C4_Witness ==
    \E p \in Procs :
       /\ pc[p] = "notify"
       /\ notifications[ItemUrl(p)] = 1
       /\ stats.priceDropsFound = 1
       /\ prices[ItemUrl(p)] # Absent
       /\ bookData[p].price < prices[ItemUrl(p)].price

\* C5: when an extraction succeeds with a price not below the stored one, the
\* notifier is not invoked and the drop counter keeps its value; the stored price
\* becomes the new price, which for an unchanged price is the price stored before.
C5_NoDropNoEvent ==
    [][\A p \in Procs :
         (Extracted(p) /\ prices[ItemUrl(p)] # Absent
            /\ NewPrice(p) >= prices[ItemUrl(p)].price) =>
           /\ notifications' = notifications
           /\ stats'.priceDropsFound = stats.priceDropsFound
           /\ pc'[p] # "notify"
           /\ prices'[ItemUrl(p)].price = NewPrice(p)
           /\ (NewPrice(p) = prices[ItemUrl(p)].price =>
                  prices'[ItemUrl(p)].price = prices[ItemUrl(p)].price)]_vars

\* one item observed twice at the same price: both prices are saved, no drop counted
C5_Witness ==
    /\ Len(books) = 1
    /\ stats.successfulRequests = 2
    /\ stats.totalRequests = 2
    /\ stats.priceDropsFound = 0
    /\ prices[books[1]] # Absent
    /\ pricesFile = prices
    /\ prices[books[1]].price = 1
    /\ notifications[books[1]] = 0

\* C6: a successful extraction for an identifier without a stored entry invokes no
\* notifier and counts no drop, whatever the price.
C6_FirstObservationSilent ==
    [][\A p \in Procs :
         (Extracted(p) /\ prices[ItemUrl(p)] = Absent) =>
           /\ notifications' = notifications
           /\ stats'.priceDropsFound = stats.priceDropsFound
           /\ pc'[p] # "notify"
           /\ prices'[ItemUrl(p)] = Observation(ItemUrl(p), NewPrice(p))]_vars

\* the first observation of an identifier is stored and nothing was notified
C6_Witness ==
    /\ stats.successfulRequests = 1
    /\ \E u \in Urls : prices[u] # Absent /\ pricesFile[u] = Absent
    /\ \A u \in Urls : notifications[u] = 0
    /\ stats.priceDropsFound = 0

\* the step in which parseAmazonPage gives up on an item
GaveUp(p) ==
    /\ pc[p] = "fetch"
    /\ stats'.failedRequests = stats.failedRequests + 1

\* C7: an attempt that raises is followed by a backoff and another attempt while
\* at most maxRetries attempts were made; parseAmazonPage gives up after exactly
\* maxRetries + 1 attempts, the batch goes on to the next index and no entry of
\* the store changes in any of these steps; an entry changes only when an
\* extraction for its identifier succeeded, so the entry of an identifier whose
\* attempts all raised is after the batch what it was before.
C7_RetryExhaustion ==
    [][\A p \in Procs :
         /\ \A u \in Urls :
               prices'[u] # prices[u] =>
                  \E q \in Procs : /\ Extracted(q) \/ pc[q] = "notify"
                                   /\ ItemUrl(q) = u
         /\ GaveUp(p) =>
               /\ attempts = MaxRetries + 1
               /\ prices' = prices
               /\ i'[p] = i[p] + 1
               /\ pc'[p] \in {"fetch", "pace", "savePrices"}
         /\ (pc[p] = "fetch" /\ pc'[p] = "backoff") =>
               /\ attempts <= MaxRetries
               /\ prices' = prices
               /\ UNCHANGED <<stats, i>>
         /\ (pc[p] = "backoff" /\ pc'[p] # "backoff") =>
               /\ pc'[p] = "fetch"
               /\ attempts' = attempts + 1
               /\ stats'.totalRequests = stats.totalRequests + 1
               /\ prices' = prices
               /\ i'[p] = i[p]]_vars

\* a batch whose only item raised on every attempt: four requests, store untouched
C7_Witness ==
    /\ \E p \in Procs : pc[p] = "savePrices" /\ i[p] = 1 /\ startIndex[p] = 0
    /\ stats.failedRequests = 1
    /\ stats.totalRequests = MaxRetries + 1
    /\ prices = EmptyStore

LoopPcs == {"pace", "fetch", "backoff", "notify"}

\* C8: a batch that read a non-empty list leaves its item loop only to save the
\* prices, however its items fared; when that write succeeds prices.json holds
\* this.prices and the progress is saved next; when that write succeeds too,
\* progress.json holds 0 if end >= itemCount and end otherwise, where
\* end = min(start + batchSize, itemCount).
C8_BothPersists ==
    [][\A p \in Procs :
         /\ (pc[p] \in LoopPcs \cup {"loadProgress"} /\ pc'[p] # pc[p]) =>
               pc'[p] \in LoopPcs \cup {"savePrices"}
         /\ (pc[p] = "savePrices" /\ pc'[p] # "savePrices" /\ lastLog' # "error") =>
               /\ pc'[p] = "saveProgress"
               /\ pricesFile' = prices
               /\ progressFile' = progressFile
         /\ (pc[p] = "saveProgress" /\ pc'[p] # "saveProgress" /\ lastLog' # "error") =>
               LET itemCount == Len(urls[p])
                   end == IF startIndex[p] + batchSize < itemCount
                          THEN startIndex[p] + batchSize ELSE itemCount
               IN /\ itemCount > 0
                  /\ pricesFile = prices
                  /\ pricesFile' = pricesFile
                  /\ lastLog' = "saved"
                  /\ progressFile' = [index |-> IF end >= itemCount THEN 0 ELSE end]]_vars

\* both files were saved by a batch in which an item failed and none succeeded,
\* and the cursor was moved to end
C8_Witness ==
    /\ lastLog = "saved"
    /\ progressFile # NoFile
    /\ progressFile.index > 0
    /\ stats.failedRequests > 0
    /\ stats.successfulRequests = 0
    /\ pricesFile = prices

\* C10: when books.txt holds no item, and whenever the list read is empty, the
\* invocation returns from the read: no request is issued, this.prices, prices.json and progress.json keep their
\* content and the flag is cleared.
C10_EmptyListInert ==
    [][\A p \in Procs :
         (pc[p] = "readBooks" /\ pc'[p] # "readBooks"
            /\ (Len(books) = 0 \/ pc'[p] # "loadProgress")) =>
            /\ pc'[p] = Return(p)
            /\ lastLog' = "empty"
            /\ ~isRunning'
            /\ stats' = stats
            /\ prices' = prices
            /\ pricesFile' = pricesFile
            /\ progressFile' = progressFile
            /\ notifications' = notifications]_vars

\* an invocation has returned on an empty books.txt
C10_Witness ==
    /\ lastLog = "empty"
    /\ Len(books) = 0
    /\ ~isRunning
    /\ pc[Worker] = "pause"
    /\ progressFile = NoFile

CursorInRange == CursorIndex \in 0..Len(books)

\* C9 as claimed: in every state the persisted cursor is within 0..itemCount of the
\* list books.txt holds, also when the list is edited between batches.
C9_CursorWithinCurrentList == CursorInRange

\* C9 as amended: the cursor a batch persists is within 0..itemCount - 1 of the
\* list that batch read; measured against the list books.txt holds now, the bound
\* 0 <= nextIndex <= itemCount is lost only by an edit that shortens the list.
C9_CursorWithinListRead ==
    [][/\ progressFile' # progressFile =>
             \E p \in Procs :
                /\ pc[p] = "saveProgress"
                /\ progressFile' \in [index : 0..(Len(urls[p]) - 1)]
       /\ (CursorInRange /\ ~CursorInRange') => Len(books') < Len(books)]_vars

\* a saved cursor points past the end of a list that was shortened afterwards
C9_Witness ==
    /\ lastLog = "saved"
    /\ progressFile # NoFile
    /\ progressFile.index > Len(books)
    /\ ~isRunning

\* the step in which readBookUrls could not read a books.txt that holds items
ReadFailed(p) ==
    /\ pc[p] = "readBooks"
    /\ pc'[p] \notin {"readBooks", "loadProgress"}
    /\ Len(books) > 0

\* C11 as claimed: when books.txt cannot be read the batch ends with this.prices,
\* prices.json and progress.json as they were, and the promise of processBatch is
\* rejected, so that the caller sees an error and not a normal return.
C11_ReadFailureRaises ==
    [][\A p \in Procs :
         ReadFailed(p) =>
            /\ prices' = prices
            /\ pricesFile' = pricesFile
            /\ progressFile' = progressFile
            /\ Settled(p)' = "rejected"]_vars

\* what the code does on that step: nothing is changed, the invocation logs the
\* line of an empty list and returns normally
C11_ReadFailureReturns ==
    [][\A p \in Procs :
         ReadFailed(p) =>
            /\ prices' = prices
            /\ pricesFile' = pricesFile
            /\ progressFile' = progressFile
            /\ lastLog' = "empty"
            /\ Settled(p)' = "fulfilled"]_vars

\* the step in which the process is killed
Killed == kills' = kills + 1

\* the step in which the main function has run init and called startWorker
Started == pc[Worker] = "down" /\ pc'[Worker] # "down"

\* C12: when the process is killed with prices.json written and progress.json not
\* yet touched, prices.json holds the whole store of the killed process and the
\* cursor is still the start index of the interrupted batch; init then loads that
\* store, and the next batch takes the cursor as its start index.
C12_KillBetweenPersists ==
    [][/\ (Killed /\ pc[Worker] = "saveProgress" /\ progressFile' = progressFile) =>
             /\ pricesFile = prices
             /\ pricesFile' = prices
             /\ CursorIndex' = startIndex[Worker]
       /\ (Started /\ killedAt = "saveProgress") =>
             /\ prices' = pricesFile
             /\ pc'[Worker] = "idle"
       /\ (pc[Worker] = "loadProgress" /\ pc'[Worker] # "loadProgress" /\ ~Killed) =>
             startIndex'[Worker] = CursorIndex]_vars

\* after a kill between the two writes of the first batch, the next batch starts
\* at index 0 again with the observation of the killed batch in the store
C12_Witness ==
    /\ killedAt = "saveProgress"
    /\ progressFile = NoFile
    /\ pc[Worker] = "fetch"
    /\ startIndex[Worker] = 0
    /\ i[Worker] = 0
    /\ stats.totalRequests = 1
    /\ prices = pricesFile
    /\ prices[ItemUrl(Worker)] # Absent

\* what a batch at saveProgress is writing to progress.json
CursorWritten == [index |-> NextIndex(endIndex[Worker], Len(urls[Worker]))]

\* C13 as claimed: a kill during a write of prices.json or progress.json leaves the
\* file with its complete previous content or its complete new content, so that
\* loadJSON never falls back to its default on a file that had been written.
C13_WritesAllOrNothing ==
    [][Killed =>
         /\ pricesFile' \in {pricesFile} \cup
                             (IF pc[Worker] = "savePrices" THEN {prices} ELSE {})
         /\ progressFile' \in {progressFile} \cup
                               (IF pc[Worker] = "saveProgress" THEN {CursorWritten} ELSE {})]_vars

\* what the code leaves behind: a file cut short by the kill, on which loadJSON
\* returns its fallback, so that the store read back is empty
C13_TornFileReached ==
    /\ killedAt = "savePrices"
    /\ pricesFile = Garbled
    /\ pc[Worker] = "idle"
    /\ prices = EmptyStore

\* the requests the bound of the model leaves for a further batch
Budget == stats.totalRequests < MaxRequests

\* C14: however an invocation of processBatch ends - saved, skipped, empty list or a
\* caught error - the worker goes to its pause and from the pause to the top of the
\* loop, nowhere else: one pause lies between two consecutive invocations; on an
\* event loop that keeps running the worker is back at the top of the loop after
\* every invocation, and there it invokes processBatch again.
C14_WorkerNeverStops ==
    /\ [][/\ (pc[Worker] \in InFlight \cup {"idle"} /\ pc'[Worker] \notin InFlight \cup {"idle"})
               => (pc'[Worker] = "pause" /\ Settled(Worker)' = "fulfilled")
          /\ (pc[Worker] = "pause" /\ pc'[Worker] # "pause") => pc'[Worker] = "idle"
          /\ (pc[Worker] # "idle" /\ pc'[Worker] = "idle") => pc[Worker] = "pause"]_vars
    /\ (pc[Worker] # "idle") ~> (pc[Worker] = "idle")
    /\ (pc[Worker] = "idle" /\ Budget) ~> (pc[Worker] # "idle" \/ ~Budget)

\* the worker is at the top of its loop again after a batch that failed to write
C14_Witness ==
    /\ pc[Worker] = "idle"
    /\ lastLog = "error"
    /\ ~isRunning
    /\ \A c \in Callers : pc[c] = "idle"

\* the step in which the loop calls parseAmazonPage for an item: its first attempt
FirstAttempt(p) ==
    /\ pc'[p] = "fetch"
    /\ attempts' = 1
    /\ pc[p] # "fetch" \/ i'[p] # i[p]

\* C15 as claimed: in a batch the first attempt of every item but the first of the
\* slice is issued from the pacing sleep, also when the items before it failed or
\* returned null.
C15_PacedBeforeEveryNonFirst ==
    [][\A p \in Procs :
         (FirstAttempt(p) /\ i'[p] > startIndex'[p]) => pc[p] = "pace"]_vars

\* what the code does: the sleep is taken only once an item of the batch has
\* returned an observation; an item that follows only failed or null items is
\* fetched as soon as its predecessor has returned
C15_UnpacedFetchReached ==
    \E p \in Procs :
       /\ pc[p] = "fetch"
       /\ i[p] > startIndex[p]
       /\ processedInBatch[p] = 0
       /\ attempts = 1

\* C16 as claimed: with books.txt unchanged, across kills and restarts the cursor
\* moves only when a batch that started at it has attempted every index of its
\* range, and then to the start of the next range, to 0 only from the last range;
\* so every index is reached, and none is attempted again from an earlier range
\* before the indexes after it were attempted.
C16_CursorOnlyAdvances ==
    [][CursorIndex' # CursorIndex =>
         /\ pc[Worker] = "saveProgress"
         /\ startIndex[Worker] = CursorIndex
         /\ \A k \in startIndex[Worker]..(endIndex[Worker] - 1) : visits[k] >= 1
         /\ CursorIndex' =
               NextIndex(EndIndex(CursorIndex, batchSize, Len(books)), Len(books))]_vars

\* what the code allows: a kill during the write of progress.json sends the cursor
\* back to 0 from the middle of the list: index 0 is fetched again while index 2
\* has not been attempted
C16_CycleRestartedEarly ==
    /\ killedAt = "saveProgress"
    /\ progressFile = Garbled
    /\ Len(books) = 3
    /\ batchSize = 1
    /\ books[1] # books[2]
    /\ pricesFile # Garbled
    /\ pricesFile[books[1]] # Absent
    /\ pricesFile[books[2]] # Absent
    /\ pc[Worker] = "fetch"
    /\ i[Worker] = 0

\* C18: loading a prices.json or progress.json that is missing or cannot be parsed
\* raises nothing: init leaves this.prices the empty mapping and goes on to start
\* the worker, and a batch takes 0 as its start index and goes on to fetch the
\* item at index 0.
C18_LoadFallsBack ==
    [][/\ (Started /\ pricesFile \in {NoFile, Garbled}) =>
             /\ prices' = EmptyStore
             /\ pc'[Worker] = "idle"
       /\ \A p \in Procs :
             (pc[p] = "loadProgress" /\ pc'[p] # "loadProgress" /\ ~Killed
                /\ progressFile \in {NoFile, Garbled}) =>
                /\ startIndex'[p] = 0
                /\ i'[p] = 0
                /\ pc'[p] = "fetch"]_vars

\* the process was started on a prices.json cut short and without a progress.json,
\* and its first batch is fetching the item at index 0 with an empty store
C18_Witness ==
    /\ killedAt = "savePrices"
    /\ pricesFile = Garbled
    /\ progressFile = NoFile
    /\ prices = EmptyStore
    /\ pc[Worker] = "fetch"
    /\ startIndex[Worker] = 0
    /\ i[Worker] = 0

\* the step in which a write of prices.json or progress.json fails
WriteFailed(p) ==
    /\ pc[p] \in {"savePrices", "saveProgress"}
    /\ pc'[p] = Return(p)
    /\ lastLog' = "error"

\* C17 as claimed: when a write of prices.json or progress.json fails, the promise
\* of processBatch is rejected, which is how its caller can tell the batch from one
\* that saved both files, and the worker goes on to its pause.
C17_WriteFailureReported ==
    [][\A p \in Procs :
         WriteFailed(p) =>
            /\ Settled(p)' = "rejected"
            /\ p = Worker => pc'[p] = "pause"]_vars

\* what the code does: the batch that failed to write has returned to the worker
\* like any other, the error went to the log only
C17_FailureOnlyLogged ==
    /\ lastLog = "error"
    /\ pc[Worker] = "pause"
    /\ Settled(Worker) = "fulfilled"
    /\ ~isRunning
    /\ progressFile = NoFile

\* C19: when bot.sendMessage is rejected for a price drop, the entry of the item is
\* overwritten with the new observation and the loop goes on to the next index;
\* the batch then stays in its loop until it saves prices.json, and after that
\* progress.json, as a batch without a notifier error does.
C19_NotifierFailureHarmless ==
    [][\A p \in Procs :
         /\ (pc[p] = "notify" /\ pc'[p] # "notify" /\ ~Killed /\ telegramError') =>
               /\ prices' = [prices EXCEPT ![ItemUrl(p)] = bookData[p]]
               /\ i'[p] = i[p] + 1
               /\ pc'[p] = IF i[p] + 1 < endIndex[p] THEN "pace" ELSE "savePrices"
         /\ (telegramError /\ pc[p] \in LoopPcs /\ pc'[p] # pc[p] /\ ~Killed) =>
               /\ pc'[p] \in LoopPcs \cup {"savePrices"}
               /\ telegramError'
         /\ (telegramError /\ pc[p] = "savePrices" /\ pc'[p] # pc[p] /\ ~Killed) =>
               /\ pc'[p] = "saveProgress"
               /\ pricesFile' = prices
               /\ telegramError'
         /\ (telegramError /\ pc[p] = "saveProgress" /\ pc'[p] # pc[p] /\ ~Killed) =>
               /\ progressFile' = CursorWritten
               /\ lastLog' = "saved"]_vars

\* after a rejected notification the lower price is in the store and the batch is
\* fetching the next item of its slice
C19_Witness ==
    /\ telegramError
    /\ pc[Worker] = "fetch"
    /\ i[Worker] = startIndex[Worker] + 1
    /\ pricesFile \notin {NoFile, Garbled}
    /\ LET u == books[startIndex[Worker] + 1]
       IN /\ pricesFile[u] # Absent
          /\ prices[u] # Absent
          /\ prices[u].price < pricesFile[u].price

\* the process was given --once
Once == \E k \in DOMAIN argv : argv[k] = "--once"

\* C20 as claimed: started with --once, the process is gone when its price check
\* has ended: it does not go on to the pause and a further batch.
C20_OnceThenExit ==
    [][(Once /\ pc[Worker] \in InFlight /\ pc'[Worker] \notin InFlight) =>
          pc'[Worker] = "down"]_vars

\* what the code does with --once: a batch was saved and the worker, after its
\* pause, is fetching in a further batch
C20_SecondBatchReached ==
    /\ Once
    /\ lastLog = "saved"
    /\ pc[Worker] = "fetch"
    /\ stats.totalRequests = 2

Abs(x) == IF x < 0 THEN -x ELSE x

\* C21: for a drop from old to new (old > new > 0) the reported saved amount is
\* old - new and the reported percent is (old - new) / old * 100 rounded to two
\* decimals, a two-decimal number within half a hundredth of it; for 100.00 and
\* 75.00 they are 25.00 and 25.00.
C21_SavedAndPercent ==
    result # Null =>
       /\ arg.old > arg.new /\ arg.new > 0
       /\ result.saved = arg.old - arg.new
       /\ 2 * Abs(result.percent * arg.old - 10000 * (arg.old - arg.new)) <= arg.old
       /\ (arg.old = 10000 /\ arg.new = 7500) =>
             (result.saved = 2500 /\ result.percent = 2500)

\* the notification of the drop from 100.00 to 75.00
C21_Witness ==
    /\ arg = [old |-> 10000, new |-> 7500]
    /\ result = [saved |-> 2500, percent |-> 2500]

\* a quotient exactly half-way is reported as either neighbour: 15.625 percent
\* (0.32 to 0.27) as 15.62, 90.625 percent (0.32 to 0.03) as 90.63
C21_HalfWayReached ==
    /\ arg = [old |-> 32, new |-> 27]
    /\ result = [saved |-> 5, percent |-> 1562]

\* C22: the list a batch indexes into holds no identifier twice, even when the
\* source repeats one, so no identifier is fetched at two indices of a cycle.
C22_ListHasNoDuplicates ==
    \A p \in Procs :
       \A a, b \in 1..Len(urls[p]) : urls[p][a] = urls[p][b] => a = b

\* one batch fetched the same identifier at index 0 and at index 1
C22_FetchedTwiceReached ==
    \E p \in Procs :
       /\ pc[p] = "savePrices"
       /\ startIndex[p] = 0 /\ i[p] = 2
       /\ urls[p][1] = urls[p][2]
       /\ visits[0] = 1 /\ visits[1] = 1
       /\ stats.successfulRequests = 2

\* C23: the wait after failed attempt number retryCount (0, 1, 2, below
\* maxRetries) is backoffBase * 2^retryCount, 5, 10 and 20 seconds; when
\* parseAmazonPage gives up, the waits of that call add up to
\* backoffBase * (2^maxRetries - 1).
C23_ExponentialBackoff ==
    [][\A p \in Procs :
         /\ (pc[p] = "backoff" /\ pc'[p] = "fetch") =>
               /\ retryCount[p] < MaxRetries
               /\ retryCount[p] = attempts - 1
               /\ waited' - waited = BackoffBase * 2 ^ retryCount[p]
               /\ waited' - waited = <<5000, 10000, 20000>>[retryCount[p] + 1]
         /\ GaveUp(p) => waited = BackoffBase * (2 ^ MaxRetries - 1)]_vars

\* the last attempt of an item is under way after waits of 5, 10 and 20 seconds
C23_Witness ==
    \E p \in Procs :
       /\ pc[p] = "fetch"
       /\ retryCount[p] = MaxRetries
       /\ attempts = MaxRetries + 1
       /\ waited = 35000

\* the step in which an attempt of parseAmazonPage comes to its end
Attempted(p) == pc[p] = "fetch" /\ (pc'[p] # "fetch" \/ i'[p] # i[p])

\* the step in which an attempt finds a page without a usable price
Unavailable(p) == Attempted(p) /\ outcome' = "unavailable"

\* C24: an attempt number retryCount < maxRetries that finds no price is followed
\* by the backoff and another attempt, like an attempt that raised; null is
\* returned only after maxRetries + 1 attempts.
C24_NoPriceRetried ==
    [][\A p \in Procs :
         /\ (Unavailable(p) /\ retryCount[p] < MaxRetries) => pc'[p] = "backoff"
         /\ (Attempted(p) /\ i'[p] # i[p] /\ ~Extracted(p)) =>
               attempts = MaxRetries + 1]_vars

\* the only attempt for the only item found no price: the batch is saving
C24_NullAfterOneAttempt ==
    \E p \in Procs :
       /\ pc[p] = "savePrices"
       /\ Len(urls[p]) = 1 /\ i[p] = 1
       /\ outcome = "unavailable"
       /\ stats.totalRequests = 1

\* C25: an attempt that finds the page without a price element, or with a price
\* that is not a positive number, makes parseAmazonPage return null at once: no
\* backoff, no further request for that item, the batch goes on to the next
\* index and the store is untouched.
C25_UnavailableNotRetried ==
    [][\A p \in Procs :
         Unavailable(p) =>
            /\ pc'[p] \in {"fetch", "pace", "savePrices"}
            /\ i'[p] = i[p] + 1
            /\ retryCount'[p] = 0
            /\ visits'[i[p]] = visits[i[p]]
            /\ stats'.totalRequests =
                  stats.totalRequests + (IF pc'[p] = "fetch" THEN 1 ELSE 0)
            /\ pc'[p] = "fetch" => (attempts' = 1 /\ visits'[i'[p]] = visits[i'[p]] + 1)
            /\ prices' = prices]_vars

\* the first item had no price at its first attempt; the second item is being
\* fetched after two requests in all and no wait
C25_Witness ==
    \E p \in Procs :
       /\ pc[p] = "fetch"
       /\ startIndex[p] = 0 /\ i[p] = 1
       /\ outcome = "unavailable"
       /\ stats.totalRequests = 2
       /\ attempts = 1 /\ waited = 0
       /\ prices = EmptyStore

\* where an invocation is while parseAmazonPage runs
Parsing == {"fetch", "backoff"}

\* C26: parseAmazonPage throws nothing to processBatch and terminates: its retry
\* counter never exceeds maxRetries, it makes at most maxRetries + 1 attempts, each
\* attempt ends in a backoff or in the return of an observation or of null to the
\* loop of the batch, and on an event loop that keeps running the call for an
\* item returns.
C26_ParseReturns ==
    /\ [](\A p \in Procs : retryCount[p] <= MaxRetries /\ attempts <= MaxRetries + 1)
    /\ [][\A p \in Procs :
            /\ (pc[p] \in Parsing /\ pc'[p] \notin Parsing) =>
                  /\ pc[p] = "fetch"
                  /\ pc'[p] \in {"notify", "pace", "savePrices"}
                  /\ lastLog' = lastLog
            /\ (Attempted(p) /\ pc'[p] # "backoff") =>
                  /\ Extracted(p) <=> outcome' = "price"
                  /\ ~Extracted(p) <=> outcome' \in {"unavailable", "error"}
                  /\ outcome' = "error" => attempts = MaxRetries + 1
            /\ (Attempted(p) /\ pc'[p] = "backoff") =>
                  (outcome' = "error" /\ attempts <= MaxRetries)]_vars
    /\ \A k \in 0..MaxItems :
          (pc[Worker] \in Parsing /\ i[Worker] = k)
             ~> ~(pc[Worker] \in Parsing /\ i[Worker] = k)

\* the call for the first item made its last attempt and returned null; the
\* second item is being fetched
C26_Witness ==
    /\ pc[Worker] = "fetch"
    /\ i[Worker] = 1
    /\ attempts = 1
    /\ outcome = "error"
    /\ stats.failedRequests = 1
    /\ stats.totalRequests = MaxRetries + 2

\* C27: after a successful extraction - a drop, a rise, an unchanged price or a
\* first observation - the entry stored for the identifier is the new observation,
\* at once or, for a drop, when the notifier has answered; the store holds at most
\* one observation per identifier, the one carrying that identifier.
C27_StoreHoldsLatest ==
    /\ [](\A u \in Urls : prices[u] # Absent => prices[u].url = u)
    /\ [][\A p \in Procs :
            /\ (Extracted(p) /\ pc'[p] # "notify") =>
                  \E price \in Prices :
                     /\ prices' = [prices EXCEPT ![ItemUrl(p)] = Observation(ItemUrl(p), price)]
                     /\ outcome' = "price"
            /\ (Extracted(p) /\ pc'[p] = "notify") =>
                  \E price \in Prices :
                     /\ bookData'[p] = Observation(ItemUrl(p), price)
                     /\ price < prices[ItemUrl(p)].price
            /\ (pc[p] = "notify" /\ pc'[p] # "notify") =>
                  prices' = [prices EXCEPT ![ItemUrl(p)] = bookData[p]]]_vars

\* an entry saved at price 2 was replaced by the observation at price 1 when the
\* notifier had answered
C27_Witness ==
    \E u \in Urls :
       /\ pricesFile \notin {NoFile, Garbled}
       /\ pricesFile[u] # Absent /\ pricesFile[u].price = 2
       /\ prices[u] = Observation(u, 1)
       /\ notifications[u] = 1
       /\ \A q \in Procs : pc[q] # "notify"

\* the indices of the batch of p: startIndex .. endIndex - 1
Slice(p) ==
    {k \in 0..(Len(urls[p]) - 1) :
        startIndex[p] <= k /\ k < Min(startIndex[p] + batchSize, Len(urls[p]))}

\* C28: a step changes the entry of an identifier only if it belongs to a batch,
\* the identifier is the one at the index the batch is at, that index lies in
\* the slice of the batch and the extraction for it has just succeeded (or
\* succeeded before the notification that has just been answered); every other
\* entry is after the step what it was before, and so after the batch.
C28_BatchFrame ==
    [][\A u \in Urls :
         prices'[u] # prices[u] =>
            \E p \in Procs :
               /\ isRunning
               /\ pc[p] \in {"fetch", "notify"}
               /\ i[p] \in Slice(p)
               /\ u = urls[p][i[p] + 1]
               /\ Extracted(p) \/ (pc[p] = "notify" /\ bookData[p] # Null)
               /\ \A v \in Urls \ {u} : prices'[v] = prices[v]
               /\ \A q \in Procs \ {p} : pc[q] \notin InFlight]_vars

\* the batch of the second of two items stored its entry and left the entry of
\* the first item as the earlier batch had saved it
C28_Witness ==
    \E p \in Procs :
       /\ pc[p] = "savePrices"
       /\ batchSize = 1 /\ Len(urls[p]) = 2 /\ urls[p][1] # urls[p][2]
       /\ startIndex[p] = 1
       /\ pricesFile \notin {NoFile, Garbled}
       /\ pricesFile[urls[p][1]] = prices[urls[p][1]]
       /\ prices[urls[p][1]] # Absent
       /\ pricesFile[urls[p][2]] = Absent
       /\ prices[urls[p][2]] # Absent

\* the step in which parseAmazonPage returns null to the loop of the batch
ReturnedNull(p) == Attempted(p) /\ i'[p] # i[p] /\ ~Extracted(p)

\* C29: every item of the slice for which parseAmazonPage returns null - after
\* the last retry or because the page has no usable price - raises the failure
\* count by exactly one, and nothing else raises it.
C29_EveryNullCounted ==
    [][/\ \A p \in Procs :
            ReturnedNull(p) => stats'.failedRequests = stats.failedRequests + 1
       /\ stats'.failedRequests # stats.failedRequests =>
            \E p \in Procs : ReturnedNull(p)]_vars

\* a batch of two items, both without a price: two null results, failure count 0
C29_NullUncounted ==
    \E p \in Procs :
       /\ pc[p] = "savePrices"
       /\ startIndex[p] = 0 /\ i[p] = 2
       /\ outcome = "unavailable"
       /\ stats.totalRequests = 2
       /\ stats.successfulRequests = 0
       /\ stats.failedRequests = 0

\* the step in which a request is sent
Requested == stats'.totalRequests = stats.totalRequests + 1

\* C30: the items of a batch are fetched one at a time in increasing index order
\* from startIndex to endIndex - 1: the first request of a batch is for
\* startIndex, the index moves only by one and only when the call for the item
\* has returned (or its notification was answered), every request is for the
\* index the batch is at, which lies in the slice, a request after a backoff is
\* for the same item, and the first attempt of the next item is made only when
\* no attempt of the item before it is outstanding.
C30_InIndexOrder ==
    /\ [](Cardinality({p \in Procs : pc[p] \in Parsing}) <= 1)
    /\ [][\A p \in Procs :
            /\ pc[p] = "loadProgress" =>
                  (i'[p] = startIndex'[p] /\ (pc'[p] = "fetch" => FirstAttempt(p)))
            /\ (pc[p] \in LoopPcs /\ pc'[p] \in LoopPcs \cup {"savePrices"}) =>
                  /\ i'[p] \in {i[p], i[p] + 1}
                  /\ i'[p] # i[p] =>
                        (Attempted(p) /\ pc'[p] # "backoff") \/ pc[p] = "notify"
                  /\ pc'[p] = "savePrices" => i'[p] = endIndex[p]
            /\ (pc[p] \in InFlight /\ pc'[p] \in Parsing /\ Requested) =>
                  /\ pc'[p] = "fetch"
                  /\ i'[p] \in Slice(p)'
                  /\ pc[p] = "backoff" => (i'[p] = i[p] /\ attempts' = attempts + 1)
                  /\ pc[p] # "backoff" =>
                        /\ FirstAttempt(p)
                        /\ pc[p] = "loadProgress" \/ i'[p] > startIndex'[p]
                        /\ pc[p] = "pace" => i'[p] = i[p]]_vars

\* the second item of a batch is being fetched after the first one was extracted
\* and the pacing sleep taken
C30_Witness ==
    \E p \in Procs :
       /\ pc[p] = "fetch"
       /\ startIndex[p] = 0 /\ i[p] = 1 /\ endIndex[p] = 2
       /\ processedInBatch[p] = 1
       /\ stats.totalRequests = 2
       /\ attempts = 1

\* C32: on a retry the User-Agent presented to the server differs from the one
\* presented on the attempt before it for the same item.
C32_IdentityRotates ==
    (arg \in Draws /\ result # Null) => result.retry # result.attempt

\* a retry presented the User-Agent of the attempt before it, drawn from another
\* random number
C32_SameIdentityReached ==
    /\ arg = [attempt |-> 0, retry |-> 1]
    /\ result = [attempt |-> 1, retry |-> 1]

\* C33: for every item count >= 1 and every random number getDelay returns at
\* least the floor of 60 seconds and, when 0.6 * (DAY_MS / booksCount) is at least
\* the floor, a delay within [0.6, 1.4] * (DAY_MS / booksCount).
C33_DelayWithinJitter ==
    (arg \in DelayCalls /\ arg.fn = "getDelay" /\ result # Null) =>
       /\ arg.booksCount >= 1
       /\ result.delay >= MinDelay
       /\ 6 * (DAY_MS \div 10) >= MinDelay * arg.booksCount =>
             /\ 10 * result.delay >= 6 * (DAY_MS \div arg.booksCount)
             /\ 10 * result.delay <= 14 * (DAY_MS \div arg.booksCount)

\* the delay for four items at the largest random number: more than 1.3 times
\* the average of six hours
C33_Witness ==
    /\ arg = [fn |-> "getDelay", booksCount |-> 4, random |-> RandSteps - 1]
    /\ result # Null
    /\ result.delay > 13 * (DAY_MS \div 40)
    /\ 10 * result.delay <= 14 * (DAY_MS \div 4)

\* the delay for 8640 items, ten seconds on average, is the floor
C33_FloorReached ==
    /\ arg = [fn |-> "getDelay", booksCount |-> 8640, random |-> 0]
    /\ result = [delay |-> MinDelay]

\* C34: for every random number randomDelay returns the base plus a jitter from
\* the symmetric range [-range, +range], the random source spread evenly over it
\* (8 s +/- 5 s), and never less than the floor, which 8 s - 5 s does not reach.
C34_SymmetricJitter ==
    (arg \in DelayCalls /\ arg.fn = "randomDelay" /\ result # Null) =>
       result.delay =
          RequestDelay - RandomDelayRange
             + (2 * arg.random * RandomDelayRange) \div RandSteps

\* the smallest random number gives the base itself, not the base less the range
C34_NeverBelowBase ==
    /\ arg = [fn |-> "randomDelay", booksCount |-> 0, random |-> 0]
    /\ result = [delay |-> RequestDelay]

\* the positions of a line that hold something other than white space
Inked(line) == {k \in 1..Len(line) : line[k] # " "}

\* a line from its first to its last character that is not white space
Core(line) == SubSeq(line, Lowest(Inked(line)), Highest(Inked(line)))

\* the lines put together again with a line feed between them
RECURSIVE Joined(_)
Joined(lines) ==
    IF Len(lines) = 1 THEN lines[1]
    ELSE lines[1] \o <<"\n">> \o Joined(Tail(lines))

\* C35: readBookUrls returns, in the order of the source, exactly the trimmed
\* lines of books.txt that are not empty and do not start with '#': each line
\* that holds something other than white space, the first such character not
\* being '#', gives its text from the first to the last such character as one
\* item, and no other line gives an item.
C35_LinesKept ==
    (arg \in [content : Contents] /\ result # Null) =>
       LET lines == Split(arg.content)
           kept == {k \in 1..Len(lines) :
                       /\ Inked(lines[k]) # {}
                       /\ lines[k][Lowest(Inked(lines[k]))] # "#"}
           items == result.urls
       IN /\ Joined(lines) = arg.content
          /\ \A k \in 1..Len(lines) : \A j \in 1..Len(lines[k]) : lines[k][j] # "\n"
          /\ Len(items) = Cardinality(kept)
          /\ \E at \in [1..Len(items) -> kept] :
                /\ \A m, n \in 1..Len(items) : m < n => at[m] < at[n]
                /\ \A n \in 1..Len(items) : items[n] = Core(lines[at[n]])

\* a comment line and an indented line with white space after it: one item
C35_Witness ==
    /\ arg = [content |-> <<"#", "\n", " ", "a", " ">>]
    /\ result = [urls |-> <<<<"a">>>>]

\* C36: isRunning is true exactly while an invocation of processBatch is past
\* its guard: every way out of such an invocation - both files saved, empty item
\* list, a read or a write that failed - leaves the flag false, and after a batch
\* that ended in an error the next invocation is admitted, not skipped.
C36_FlagClearedOnEveryExit ==
    /\ [](isRunning <=> \E p \in Procs : pc[p] \in InFlight)
    /\ [][\A p \in Procs :
            /\ (pc[p] \in InFlight /\ pc'[p] \notin InFlight) =>
                  (~isRunning' /\ lastLog' \in {"saved", "empty", "error"})
            /\ (pc[p] = "idle" /\ pc'[p] # "idle" /\ lastLog = "error"
                   /\ \A q \in Procs : pc[q] \notin InFlight) =>
                  (pc'[p] = "readBooks" /\ isRunning')]_vars

\* a batch is in flight after the batch before it ended in an error
C36_Witness ==
    /\ isRunning
    /\ lastLog = "error"
    /\ \E p \in Procs : pc[p] = "readBooks"

\* C37: progress.json is written only by a batch whose write of prices.json has
\* succeeded: when it is written, prices.json holds the store of that batch; a
\* batch whose write of prices.json fails ends there and leaves the cursor file
\* as it was.
C37_ProgressAfterPrices ==
    [][/\ progressFile' # progressFile =>
            \E p \in Procs : /\ pc[p] = "saveProgress"
                             /\ pricesFile = prices
                             /\ pricesFile' = pricesFile
       /\ \A p \in Procs :
            /\ (pc'[p] = "saveProgress" /\ pc[p] # "saveProgress") =>
                  (pc[p] = "savePrices" /\ pricesFile' = prices /\ prices' = prices)
            /\ (pc[p] = "savePrices" /\ pc'[p] \notin {"savePrices", "saveProgress"}) =>
                  /\ pc'[p] = Return(p)
                  /\ lastLog' = "error"
                  /\ progressFile' = progressFile]_vars

\* the write of prices.json failed after an extraction: the batch is over, the
\* store is not on disk and the cursor file is still missing
C37_Witness ==
    /\ \A p \in Procs : pc[p] \notin InFlight
    /\ lastLog = "error"
    /\ stats.successfulRequests = 1
    /\ pricesFile # prices
    /\ progressFile = NoFile

\* C31: in test-parser.js the setInterval callback starts a checkPrices run only
\* when no earlier checkPrices run is still in flight.
C31_NoRunWhileInFlight ==
    [][fired' = fired + 1 => \A r \in Procs : ~Checking(r)]_vars

\* two checkPrices runs are in flight at once, one of them asleep between two urls
C31_TwoRunsInFlight ==
    /\ \A r \in Procs : Checking(r)
    /\ \E r \in Procs : Sleeping(r) /\ pc[r] = "pace"
    /\ booksCount = MaxItems + 2

\* the notifier was invoked for u in this step
Notified(u) == notifications'[u] = notifications[u] + 1

\* C39: the notifier is invoked for an item only when the site shows a price below
\* the one it showed last, so a drop notified once is not notified again when the
\* process is killed before the store is written and then started again.
C39_OneNotificationPerDrop ==
    [][\A u \in Urls : Notified(u) => (seen[u] > 0 /\ seen'[u] < seen[u])]_vars

\* the process was killed after a notification for u1 and before the store was
\* written; started again, it notified the same drop from 2 to 1 once more
C39_NotifiedTwice ==
    /\ kills = 1
    /\ killedAt \in {"notify", "pace", "fetch", "savePrices"}
    /\ notifications["u1"] = 2
    /\ seen["u1"] = 1
    /\ pricesFile # NoFile /\ pricesFile # Garbled
    /\ pricesFile["u1"] = Observation("u1", 2)

\* the batch of p found the cursor at or past the end of the list it read
PastEnd(p) == startIndex[p] >= Len(urls[p])

TypeOK ==
    /\ outcome \in {"none", "error", "unavailable", "price"}
    /\ books \in ManyLists \cup LongLists
    /\ seen \in [Urls -> 0..MaxPrice]
    /\ booksCount \in 0..(MaxItems + 2)
    /\ checkedCount \in [Procs -> 0..(MaxItems + 2)]
    /\ timer \in NoTimer..CheckInterval
    /\ fired \in 0..MaxIntervals
    /\ isRunning \in BOOLEAN
    /\ lastLog \in LogLines
    /\ progressFile \in {NoFile, Garbled} \cup [index : 0..MaxItems]
    /\ pricesFile \in {NoFile, Garbled} \cup [Urls -> {Absent} \cup [url : Urls, price : Prices]]
    /\ telegramError \in BOOLEAN
    /\ kills \in 0..MaxKills

====
